---- MODULE Spec2Model ----
(***************************************************************************)
(* DarwinCoreReader (reader.py): the two-pass conversion of a Darwin Core  *)
(* taxon table and vernacular-name table into per-class (name, URI) lists. *)
(*                                                                         *)
(* Strings that the code inspects character by character (names,           *)
(* identifiers, vernacular-name fields, output lines) are sequences of     *)
(* one-character strings; the constant base URI is kept as one element.    *)
(* Strings that are only compared or looked up (kingdoms, classes,         *)
(* languages) are TLA+ strings.                                            *)
(***************************************************************************)
EXTENDS Integers, Sequences, FiniteSets, TLC

VARIABLES
    variant,                      \* "Backbone" | "CoL": the processor class constructed
    build_from_generic_name,      \* CatalogueOfLifeProcessor option
    strip_author,                 \* CatalogueOfLifeProcessor option
    separate_vernacular_names,    \* DarwinCoreProcessor option
    filter_languages,             \* accepted language set
    id_kingdom_map,               \* taxon id -> kingdom
    taxon_id_identifier_mapping,  \* taxon id -> identifier (CoL)
    accepted_name_taxon_mapping,  \* accepted name usage id -> list of (name, taxon id) (CoL)
    files,                        \* open output file -> lines written so far
    pc,                           \* position in process(): "taxon" | "vernacular" | "closed"
    taxon_rows,                   \* rows the taxon reader has yielded so far
    vernacular_rows,              \* rows the vernacular reader has yielded so far
    filtered,                     \* local counter of read_vernacular_names_tsv
    all_count,                    \* local counter of read_vernacular_names_tsv
    names                         \* result of the last vernacular_name_sepearator.split

vars == <<variant, build_from_generic_name, strip_author, separate_vernacular_names,
          filter_languages, id_kingdom_map, taxon_id_identifier_mapping,
          accepted_name_taxon_mapping, files, pc, taxon_rows, vernacular_rows,
          filtered, all_count, names>>

config == <<variant, build_from_generic_name, strip_author, separate_vernacular_names,
            filter_languages>>

-----------------------------------------------------------------------------
(* Bounds of the explored inputs: the number of rows of the tables *)

\* Spec: both processors, both passes
MaxTaxonRows == 1

MaxVernacularRows == 2

\* SpecTaxon: both processors, the taxon pass
MaxSkipRows == 2

\* SpecRedirect: the Catalogue-of-Life taxon pass
MaxRedirectRows == 3

\* SpecCoL: the Catalogue-of-Life processor, both passes
MaxCoLRows == 2

MaxCoLVernacularRows == 1

\* SpecClass: the Catalogue-of-Life processor, both passes, several kingdoms
MaxClassRows == 2

MaxClassVernacularRows == 1

\* SpecSplit: the vernacular pass on every field up to a length
MaxFieldLen == 4

MaxFieldRows == 1

-----------------------------------------------------------------------------
(* Module-level tables and patterns *)

kingdom_class_map ==
    [k \in {"Animalia", "Archaea", "Bacteria", "Chromista", "Fungi", "Lichen",
            "Plantae", "Protozoa", "Taxon", "Viruses"} |->
        CASE k = "Animalia" -> "Animal_Fauna"
          [] k = "Plantae"  -> "Plant_Flora"
          [] OTHER          -> k]

class_kingdom_map_keys ==
    {"Animal_Fauna", "Archaea", "Bacteria", "Chromista", "Fungi", "Lichen",
     "Plant_Flora", "Protozoa", "Taxon", "Viruses"}

\* mutant: the entry for Plantae is missing from the table
Clazz_NoPlantae(kingdom) ==
    IF kingdom \in DOMAIN kingdom_class_map \ {"Plantae"}
    THEN kingdom_class_map[kingdom] ELSE "Taxon"

\* kingdom_class_map.get(kingdom, "Taxon")
Clazz(kingdom) ==
    IF kingdom \in DOMAIN kingdom_class_map THEN kingdom_class_map[kingdom] ELSE "Taxon"

Backbone_base_uri == <<"https://www.gbif.org/species/">>

CoL_base_uri == <<"http://www.catalogueoflife.org/col/details/species/id/">>

base_uri == IF variant = "Backbone" THEN Backbone_base_uri ELSE CoL_base_uri

incertae_sedis == <<"i","n","c","e","r","t","a","e"," ","s","e","d","i","s">>

\* str.isspace(): non-empty and whitespace only
isspace(s) == Len(s) > 0 /\ \A i \in 1..Len(s) : s[i] = " "

IsUpper(c) ==
    c \in {"A","B","C","D","E","F","G","H","I","J","K","L","M",
           "N","O","P","Q","R","S","T","U","V","W","X","Y","Z"}

SetMax(S) == CHOOSE m \in S : \A x \in S : x <= m

\* dict[k] = v
Put(m, k, v) == [x \in DOMAIN m \cup {k} |-> IF x = k THEN v ELSE m[x]]

\* dict.get(k, d)
Get(m, k, d) == IF k \in DOMAIN m THEN m[k] ELSE d

\* vernacular_name_sepearator.split(s), pattern ", ?": a comma and, if one
\* follows it, one space are a separator; n separators give n + 1 parts.
RECURSIVE SplitFrom(_, _, _)
SplitFrom(s, i, cur) ==
    IF i > Len(s) THEN <<cur>>
    ELSE IF s[i] = ","
         THEN <<cur>> \o SplitFrom(s, IF i + 1 <= Len(s) /\ s[i + 1] = " " THEN i + 2 ELSE i + 1, <<>>)
         ELSE SplitFrom(s, i + 1, Append(cur, s[i]))

\* mutant: the pattern is "," alone
RECURSIVE SplitCommaFrom(_, _, _)
SplitCommaFrom(s, i, cur) ==
    IF i > Len(s) THEN <<cur>>
    ELSE IF s[i] = ","
         THEN <<cur>> \o SplitCommaFrom(s, i + 1, <<>>)
         ELSE SplitCommaFrom(s, i + 1, Append(cur, s[i]))

Split_CommaOnly(s) == SplitCommaFrom(s, 1, <<>>)

Split(s) == SplitFrom(s, 1, <<>>)

\* strip_author_pattern.match(name).group(1), or name when there is no match:
\* ^([\p{upper}]?[\P{upper}]+) (in)?.*$
StripAuthor(name) ==
    LET p == IF Len(name) > 0 /\ IsUpper(name[1]) THEN 1 ELSE 0
        run == {q \in p..Len(name) : \A i \in (p + 1)..q : ~IsUpper(name[i])}
        q == SetMax(run)
        ends == {e \in (p + 1)..(q - 1) : name[e + 1] = " "}
    IN IF ends = {} THEN name ELSE SubSeq(name, 1, SetMax(ends))

-----------------------------------------------------------------------------
(* Helpers of the processors *)

\* f"{name}\t{uri}\n" with uri = f"{base_uri}{suffix}"
Line(name, base, suffix) == name \o <<"\t">> \o base \o suffix \o <<"\n">>

\* DarwinCoreProcessor.get_out_files: one file per class for a file-name suffix
get_out_files(identifier) == {<<identifier, clazz>> : clazz \in class_kingdom_map_keys}

\* the files opened by __init__
OpenFiles(separate) ==
    IF separate THEN get_out_files("_tx") \cup get_out_files("_vn") ELSE get_out_files("")

out_files_tx(clazz) == IF separate_vernacular_names THEN <<"_tx", clazz>> ELSE <<"", clazz>>

\* mutant: the vernacular names go to the taxon files although separated
out_files_vn_AsTx(clazz) == out_files_tx(clazz)

out_files_vn(clazz) == IF separate_vernacular_names THEN <<"_vn", clazz>> ELSE <<"", clazz>>

\* file.write for each line of a list, in order
WriteAll(fs, f, lines) == [fs EXCEPT ![f] = @ \o lines]

\* BackboneProcessor.read_taxon_tsv: the rows that are skipped
SkipBackbone(name) == name = <<>> \/ isspace(name)

\* mutant: the sentinel is not tested
SkipCoL_NoSentinel(name) == name = <<>> \/ isspace(name)

\* CatalogueOfLifeProcessor.read_taxon_tsv: the rows that are skipped
SkipCoL(name) == name = <<>> \/ isspace(name) \/ name = incertae_sedis

\* CatalogueOfLifeProcessor.get_name
get_name(row) ==
    IF build_from_generic_name
    THEN row.genericName \o <<" ">> \o row.specificEpithet \o <<" ">> \o row.infraspecificEpithet
    ELSE IF strip_author THEN StripAuthor(row.scientificName) ELSE row.scientificName

\* the name a taxon row results in, for either processor
ResultingName(row) == IF variant = "Backbone" THEN row.canonicalName ELSE get_name(row)

\* mutant: the isspace() test is missing
NoIdentifier_EmptyOnly(identifier) == identifier = <<>>

\* identifier == "" or identifier.isspace()
NoIdentifier(identifier) == identifier = <<>> \/ isspace(identifier)

\* accepted_name_taxon_mapping.update({accepted_name_usage: other_taxa + [(name, taxon_id)]})
Defer(mapping, accepted_name_usage, name, taxon_id) ==
    Put(mapping, accepted_name_usage,
        Get(mapping, accepted_name_usage, <<>>) \o << <<name, taxon_id>> >>)

\* mutant: the pending entries are looked up under no key
OtherTaxa_None(mapping, taxon_id) == <<>>

\* accepted_name_taxon_mapping.get(taxon_id, [])
OtherTaxa(mapping, taxon_id) == Get(mapping, taxon_id, <<>>)

\* mutant: the drained entries are written but their identifier is not recorded
Backfill_None(mapping, other_taxa, identifier) == mapping

\* taxon_id_identifier_mapping[other_taxon_id] = identifier for every drained entry
Backfill(mapping, other_taxa, identifier) ==
    LET ids == {other_taxa[i][2] : i \in 1..Len(other_taxa)}
    IN [x \in DOMAIN mapping \cup ids |-> IF x \in ids THEN identifier ELSE mapping[x]]

\* taxon_id_identifier_mapping.get(taxon_id, taxon_id)
ResolveIdentifier(mapping, taxon_id) == Get(mapping, taxon_id, taxon_id)

\* kingdom_class_map.get(self.id_kingdom_map.get(taxon_id, ""), "Taxon")
VernacularClazz(kingdoms, taxon_id) == Clazz(Get(kingdoms, taxon_id, ""))

\* mutant: the language test always succeeds
LanguageAccepted_Any(lang, languages) == TRUE

\* any((lang == filter_lang) for filter_lang in self.filter_languages)
LanguageAccepted(lang, languages) == \E filter_lang \in languages : lang = filter_lang

-----------------------------------------------------------------------------
(* Construction *)

Backbone_filter_languages == {"de", "la"}

CoL_filter_languages == {"German", "Ger", "Prussian, Old DE", "Prussian"}

InitWith(v, build, strip, separate, languages) ==
    /\ variant = v
    /\ build_from_generic_name = build
    /\ strip_author = strip
    /\ separate_vernacular_names = separate
    /\ filter_languages = languages
    /\ id_kingdom_map = << >>
    /\ taxon_id_identifier_mapping = << >>
    /\ accepted_name_taxon_mapping = << >>
    /\ files = [f \in OpenFiles(separate) |-> <<>>]
    /\ pc = "taxon"
    /\ taxon_rows = <<>>
    /\ vernacular_rows = <<>>
    /\ filtered = 0
    /\ all_count = 0
    /\ names = <<>>

-----------------------------------------------------------------------------
(* The taxon pass *)

\* one iteration of the row loop of BackboneProcessor.read_taxon_tsv
ReadTaxonRowBackbone(row) ==
    /\ pc = "taxon"
    /\ variant = "Backbone"
    /\ taxon_rows' = Append(taxon_rows, row)
    /\ LET taxon_id == row.taxonID
           name == row.canonicalName
           kingdom == row.kingdom
           clazz == Clazz(kingdom)
       IN IF SkipBackbone(name)
          THEN UNCHANGED <<id_kingdom_map, files>>
          ELSE /\ id_kingdom_map' = Put(id_kingdom_map, taxon_id, kingdom)
               /\ files' = WriteAll(files, out_files_tx(clazz),
                                    <<Line(name, base_uri, taxon_id)>>)
    /\ UNCHANGED <<config, taxon_id_identifier_mapping, accepted_name_taxon_mapping, pc,
                   vernacular_rows, filtered, all_count, names>>

\* one iteration of the row loop of CatalogueOfLifeProcessor.read_taxon_tsv
ReadTaxonRowCoL(row) ==
    /\ pc = "taxon"
    /\ variant = "CoL"
    /\ taxon_rows' = Append(taxon_rows, row)
    /\ LET taxon_id == row.taxonID
           identifier == row.identifier
           accepted_name_usage == row.acceptedNameUsageID
           mapping == Put(taxon_id_identifier_mapping, taxon_id, identifier)
           name == get_name(row)
           kingdom == row.kingdom
           clazz == Clazz(kingdom)
           other_taxa == OtherTaxa(accepted_name_taxon_mapping, taxon_id)
       IN IF SkipCoL(name)
          THEN /\ taxon_id_identifier_mapping' = mapping
               /\ UNCHANGED <<id_kingdom_map, accepted_name_taxon_mapping, files>>
          ELSE /\ id_kingdom_map' = Put(id_kingdom_map, taxon_id, kingdom)
               /\ IF NoIdentifier(identifier)
                  THEN /\ accepted_name_taxon_mapping' =
                              Defer(accepted_name_taxon_mapping, accepted_name_usage,
                                    name, taxon_id)
                       /\ taxon_id_identifier_mapping' = mapping
                       /\ UNCHANGED files
                  ELSE /\ files' = WriteAll(files, out_files_tx(clazz),
                              <<Line(name, base_uri, identifier)>> \o
                              [i \in 1..Len(other_taxa) |->
                                   Line(other_taxa[i][1], base_uri, identifier)])
                       /\ taxon_id_identifier_mapping' =
                              Backfill(mapping, other_taxa, identifier)
                       /\ UNCHANGED accepted_name_taxon_mapping
    /\ UNCHANGED <<config, pc, vernacular_rows, filtered, all_count, names>>

\* process(): the taxon reader is exhausted, the vernacular file is opened
EndTaxonPass ==
    /\ pc = "taxon"
    /\ pc' = "vernacular"
    /\ UNCHANGED <<config, id_kingdom_map, taxon_id_identifier_mapping,
                   accepted_name_taxon_mapping, files, taxon_rows, vernacular_rows,
                   filtered, all_count, names>>

-----------------------------------------------------------------------------
(* The vernacular pass *)

\* one iteration of the row loop of BackboneProcessor.read_vernacular_names_tsv
ReadVernacularRowBackbone(row) ==
    /\ pc = "vernacular"
    /\ variant = "Backbone"
    /\ vernacular_rows' = Append(vernacular_rows, row)
    /\ LET taxon_id == row.taxonID
           vernacular_name == row.vernacularName
           lang == row.language
           parts == Split(vernacular_name)
           clazz == VernacularClazz(id_kingdom_map, taxon_id)
       IN IF LanguageAccepted(lang, filter_languages)
          THEN /\ names' = parts
               /\ files' = WriteAll(files, out_files_vn(clazz),
                              [i \in 1..Len(parts) |-> Line(parts[i], base_uri, taxon_id)])
               /\ UNCHANGED filtered
          ELSE /\ filtered' = filtered + 1
               /\ UNCHANGED <<names, files>>
    /\ all_count' = all_count + 1
    /\ UNCHANGED <<config, id_kingdom_map, taxon_id_identifier_mapping,
                   accepted_name_taxon_mapping, pc, taxon_rows>>

\* one iteration of the row loop of CatalogueOfLifeProcessor.read_vernacular_names_tsv
ReadVernacularRowCoL(row) ==
    /\ pc = "vernacular"
    /\ variant = "CoL"
    /\ vernacular_rows' = Append(vernacular_rows, row)
    /\ LET taxon_id == row.taxonID
           identifier == ResolveIdentifier(taxon_id_identifier_mapping, taxon_id)
           vernacular_name == row.vernacularName
           lang == row.language
           parts == Split(vernacular_name)
           clazz == VernacularClazz(id_kingdom_map, taxon_id)
       IN IF LanguageAccepted(lang, filter_languages)
          THEN /\ names' = parts
               /\ files' = WriteAll(files, out_files_vn(clazz),
                              [i \in 1..Len(parts) |-> Line(parts[i], base_uri, identifier)])
               /\ UNCHANGED filtered
          ELSE /\ filtered' = filtered + 1
               /\ UNCHANGED <<names, files>>
    /\ all_count' = all_count + 1
    /\ UNCHANGED <<config, id_kingdom_map, taxon_id_identifier_mapping,
                   accepted_name_taxon_mapping, pc, taxon_rows>>

\* process(): the vernacular reader is exhausted, the output files are closed
CloseFiles ==
    /\ pc = "vernacular"
    /\ pc' = "closed"
    /\ UNCHANGED <<config, id_kingdom_map, taxon_id_identifier_mapping,
                   accepted_name_taxon_mapping, files, taxon_rows, vernacular_rows,
                   filtered, all_count, names>>

-----------------------------------------------------------------------------
(* Input tables: the rows the readers may yield *)

TaxonIds == {<<"1">>, <<"2">>}

BackboneTaxonRow(taxon_id, name, kingdom) ==
    [taxonID |-> taxon_id, canonicalName |-> name, kingdom |-> kingdom]

CoLTaxonRow(taxon_id, identifier, accepted, scientific, kingdom, generic, specific) ==
    [taxonID |-> taxon_id, identifier |-> identifier, acceptedNameUsageID |-> accepted,
     scientificName |-> scientific, kingdom |-> kingdom, genericName |-> generic,
     specificEpithet |-> specific, infraspecificEpithet |-> <<>>]

VernacularRow(taxon_id, lang, vernacular_name) ==
    [taxonID |-> taxon_id, language |-> lang, vernacularName |-> vernacular_name]

\* Every kind of name, for both processors. The name columns the configuration
\* does not read are left empty.
NamedBackboneTaxonRows ==
    {BackboneTaxonRow(t, n, k) :
        t \in TaxonIds, n \in {<<>>, <<" ">>, incertae_sedis, <<"a">>}, k \in {"Plantae", "Foo"}}

ScientificNames ==
    IF build_from_generic_name THEN {<<>>}
    ELSE {<<>>, incertae_sedis, incertae_sedis \o <<" ", "L">>}

GenericNames == IF build_from_generic_name THEN {<<>>, <<"a">>} ELSE {<<>>}

NamedCoLTaxonRows ==
    {CoLTaxonRow(t, i, <<"2">>, s, k, g, <<>>) :
        t \in TaxonIds, i \in {<<>>, <<"x">>}, s \in ScientificNames,
        k \in {"Plantae", "Foo"}, g \in GenericNames}

\* One taxon id, a skipped and a written name, a known and an unknown kingdom; the
\* vernacular rows name this taxon or one the taxon table does not hold.
BackboneTaxonRows ==
    {BackboneTaxonRow(<<"1">>, n, k) : n \in {<<>>, <<"a">>}, k \in {"Plantae", "Foo"}}

CoLTaxonRows ==
    {CoLTaxonRow(<<"1">>, i, <<"2">>, IF build_from_generic_name THEN <<>> ELSE n, k,
                 IF build_from_generic_name THEN n ELSE <<>>, <<>>) :
        i \in {<<>>, <<"x">>}, n \in {<<>>, <<"a">>}, k \in {"Plantae", "Foo"}}

VernacularRows ==
    {VernacularRow(t, l, v) :
        t \in TaxonIds, l \in {"de", "German"},
        v \in {<<"a">>, <<"a", ",", "b", ",", " ", "c">>}}

\* The redirection tables: every combination of taxon id, identifier, accepted
\* name usage and name.
RedirectTaxonRows ==
    {CoLTaxonRow(t, i, a, <<>>, "Plantae", g, <<>>) :
        t \in TaxonIds, i \in {<<>>, <<"x">>}, a \in TaxonIds,
        g \in {<<>>, <<"a">>, <<"b">>}}

\* The same with identifiers of whitespace.
BlankRedirectTaxonRows ==
    {CoLTaxonRow(t, i, a, <<>>, "Plantae", g, <<>>) :
        t \in TaxonIds, i \in {<<>>, <<" ">>, <<"x">>}, a \in TaxonIds,
        g \in {<<>>, <<"a">>, <<"b">>}}

RedirectVernacularRows ==
    {VernacularRow(t, l, <<"c">>) : t \in TaxonIds, l \in {"German", "de"}}

\* The redirection tables with several kingdoms.
ClassTaxonRows ==
    {CoLTaxonRow(t, i, <<"2">>, <<>>, k, g, <<>>) :
        t \in TaxonIds, i \in {<<>>, <<"x">>}, k \in {"Plantae", "Animalia", "Foo"},
        g \in {<<"a">>, <<"b">>}}

\* The vernacular-name fields: every string over the alphabet up to MaxFieldLen.
RECURSIVE Fields(_)
Fields(n) ==
    IF n = 0 THEN {<<>>}
    ELSE LET shorter == Fields(n - 1)
         IN shorter \cup {Append(f, c) : f \in {g \in shorter : Len(g) = n - 1},
                                         c \in {"a", ",", " "}}

FieldVernacularRows == {VernacularRow(<<"1">>, "de", v) : v \in Fields(MaxFieldLen)}

-----------------------------------------------------------------------------
(* Specifications *)

\* Either processor with every option and its default languages.
Init ==
    \/ \E separate \in BOOLEAN :
           InitWith("Backbone", FALSE, FALSE, separate, Backbone_filter_languages)
    \/ \E build \in BOOLEAN, strip \in BOOLEAN, separate \in BOOLEAN :
           /\ build => ~strip
           /\ InitWith("CoL", build, strip, separate, CoL_filter_languages)

\* Both passes of either processor.
Next ==
    \/ \E row \in BackboneTaxonRows :
           Len(taxon_rows) < MaxTaxonRows /\ ReadTaxonRowBackbone(row)
    \/ \E row \in CoLTaxonRows :
           Len(taxon_rows) < MaxTaxonRows /\ ReadTaxonRowCoL(row)
    \/ EndTaxonPass
    \/ \E row \in VernacularRows :
           Len(vernacular_rows) < MaxVernacularRows /\ ReadVernacularRowBackbone(row)
    \/ \E row \in VernacularRows :
           Len(vernacular_rows) < MaxVernacularRows /\ ReadVernacularRowCoL(row)
    \/ CloseFiles

Spec == Init /\ [][Next]_vars

\* Either processor on taxon tables with every kind of name and a vernacular
\* table without rows.
NextTaxon ==
    \/ \E row \in NamedBackboneTaxonRows :
           Len(taxon_rows) < MaxSkipRows /\ ReadTaxonRowBackbone(row)
    \/ \E row \in NamedCoLTaxonRows :
           Len(taxon_rows) < MaxSkipRows /\ ReadTaxonRowCoL(row)
    \/ EndTaxonPass
    \/ CloseFiles

SpecTaxon == Init /\ [][NextTaxon]_vars

\* The Catalogue-of-Life processor with its default options.
InitCoL == InitWith("CoL", TRUE, FALSE, TRUE, CoL_filter_languages)

\* The redirection tables and a vernacular table without rows.
NextRedirect ==
    \/ \E row \in RedirectTaxonRows :
           Len(taxon_rows) < MaxRedirectRows /\ ReadTaxonRowCoL(row)
    \/ EndTaxonPass
    \/ CloseFiles

SpecRedirect == InitCoL /\ [][NextRedirect]_vars

\* The redirection tables and the vernacular names of their taxa.
NextCoL ==
    \/ \E row \in BlankRedirectTaxonRows :
           Len(taxon_rows) < MaxCoLRows /\ ReadTaxonRowCoL(row)
    \/ EndTaxonPass
    \/ \E row \in RedirectVernacularRows :
           Len(vernacular_rows) < MaxCoLVernacularRows /\ ReadVernacularRowCoL(row)
    \/ CloseFiles

SpecCoL == InitCoL /\ [][NextCoL]_vars

\* The redirection tables with several kingdoms and the vernacular names of their taxa.
NextClass ==
    \/ \E row \in ClassTaxonRows :
           Len(taxon_rows) < MaxClassRows /\ ReadTaxonRowCoL(row)
    \/ EndTaxonPass
    \/ \E row \in RedirectVernacularRows :
           Len(vernacular_rows) < MaxClassVernacularRows /\ ReadVernacularRowCoL(row)
    \/ CloseFiles

SpecClass == InitCoL /\ [][NextClass]_vars

\* The Backbone processor on a taxon table without rows and every vernacular-name field.
InitSplit == InitWith("Backbone", FALSE, FALSE, TRUE, Backbone_filter_languages)

NextSplit ==
    \/ EndTaxonPass
    \/ \E row \in FieldVernacularRows :
           Len(vernacular_rows) < MaxFieldRows /\ ReadVernacularRowBackbone(row)
    \/ CloseFiles

SpecSplit == InitSplit /\ [][NextSplit]_vars

-----------------------------------------------------------------------------
(* Vocabulary of the properties, stated on the tables read and the files written *)

\* empty or whitespace only
Blank(s) == \A i \in 1..Len(s) : s[i] = " "

\* the row's resulting name is none of: empty, whitespace, "incertae sedis"
NotSkipped(row) ==
    LET n == ResultingName(row) IN ~Blank(n) /\ n # incertae_sedis

\* a row whose emission is deferred: no identifier of its own
DeferredRow(row) == Blank(row.identifier) /\ NotSkipped(row)

\* a row that carries taxon id t and an identifier of its own
AcceptingRow(row, t) == row.taxonID = t /\ ~Blank(row.identifier) /\ NotSkipped(row)

TaxonFiles == {f \in DOMAIN files : f[1] # "_vn"}

VernacularFiles == {f \in DOMAIN files : f[1] # "_tx"}

\* the line is "<name>\t..."
HasName(line, name) ==
    /\ Len(line) > Len(name)
    /\ SubSeq(line, 1, Len(name)) = name
    /\ line[Len(name) + 1] = "\t"

\* the line is "...\t<base_uri><suffix>\n"
HasUri(line, suffix) ==
    LET tail == <<"\t">> \o base_uri \o suffix \o <<"\n">>
    IN /\ Len(line) >= Len(tail)
       /\ SubSeq(line, Len(line) - Len(tail) + 1, Len(line)) = tail

\* the lines of the files F in the file system fs
LinesOf(fs, F) == UNION {{fs[f][i] : i \in 1..Len(fs[f])} : f \in F}

\* what a step appended to file f
Appended(f) == SubSeq(files'[f], Len(files[f]) + 1, Len(files'[f]))

\* the step only appended to the files
AppendOnly == \A f \in DOMAIN files :
    Len(files'[f]) >= Len(files[f]) /\ SubSeq(files'[f], 1, Len(files[f])) = files[f]

\* the step read one more taxon row / vernacular row
TaxonStep == taxon_rows' # taxon_rows

VernacularStep == vernacular_rows' # vernacular_rows

Last(seq) == seq[Len(seq)]

-----------------------------------------------------------------------------
(* C1 *)

\* C1 as stated: whenever a row A without identifier (accepted name usage t, name
\* not skipped) is followed by a row B with taxonID t, an identifier x and a name
\* not skipped, then no taxon line for A's name is written before B is processed,
\* and once B is processed the taxon output holds (A's name, base_uri + x) and
\* (B's name, base_uri + x). (Read in the claim's favour: an identifier of
\* whitespace counts as none, and A's name is the name of no other row before B.)
C1_AsStated ==
    [][TaxonStep =>
        LET j == Len(taxon_rows')
            B == taxon_rows'[j]
        IN \A i \in 1..(j - 1) :
            LET A == taxon_rows'[i]
            IN (/\ DeferredRow(A)
                /\ AcceptingRow(B, A.acceptedNameUsageID)
                /\ \A k \in (1..(j - 1)) \ {i} :
                       ResultingName(taxon_rows'[k]) # ResultingName(A))
               => /\ \A l \in LinesOf(files, TaxonFiles) : ~HasName(l, ResultingName(A))
                  /\ Line(ResultingName(A), base_uri, B.identifier) \in LinesOf(files', TaxonFiles)
                  /\ Line(ResultingName(B), base_uri, B.identifier) \in LinesOf(files', TaxonFiles)
    ]_vars

\* C1 amended: the same for the first row B after A that has taxonID t, an
\* identifier that is neither empty nor whitespace and a name not skipped, in a
\* table where no other row before B results in A's name: no taxon line for A's
\* name is written before B is processed; and for every such B, first or not,
\* both lines are in the taxon output once B is processed.
C1_ForwardRedirection ==
    [][TaxonStep =>
        LET j == Len(taxon_rows')
            B == taxon_rows'[j]
        IN \A i \in 1..(j - 1) :
            LET A == taxon_rows'[i]
            IN (/\ DeferredRow(A)
                /\ AcceptingRow(B, A.acceptedNameUsageID))
               => /\ ( (/\ \A k \in (i + 1)..(j - 1) :
                              ~AcceptingRow(taxon_rows'[k], A.acceptedNameUsageID)
                        /\ \A k \in (1..(j - 1)) \ {i} :
                              ResultingName(taxon_rows'[k]) # ResultingName(A))
                       => \A l \in LinesOf(files, TaxonFiles) : ~HasName(l, ResultingName(A)) )
                  /\ Line(ResultingName(A), base_uri, B.identifier) \in LinesOf(files', TaxonFiles)
                  /\ Line(ResultingName(B), base_uri, B.identifier) \in LinesOf(files', TaxonFiles)
    ]_vars

\* A deferred row A, then its accepting row B, and both lines in the taxon output.
C1_Witness ==
    /\ variant = "CoL"
    /\ Len(taxon_rows) = 2
    /\ DeferredRow(taxon_rows[1])
    /\ AcceptingRow(taxon_rows[2], taxon_rows[1].acceptedNameUsageID)
    /\ ResultingName(taxon_rows[1]) # ResultingName(taxon_rows[2])
    /\ Line(ResultingName(taxon_rows[1]), base_uri, taxon_rows[2].identifier)
           \in LinesOf(files, TaxonFiles)
    /\ Line(ResultingName(taxon_rows[2]), base_uri, taxon_rows[2].identifier)
           \in LinesOf(files, TaxonFiles)

-----------------------------------------------------------------------------
(* C6 *)

\* C6: a deferred row A (no identifier, accepted name usage t, name not skipped)
\* after which no row with taxonID t, an identifier and a name not skipped is read
\* has no line in the taxon output, in any state of the run up to and including
\* the closing of the files (A's name being the name of no other row).
C6_UnresolvedDropped ==
    \A i \in 1..Len(taxon_rows) :
        LET A == taxon_rows[i]
        IN (/\ variant = "CoL"
            /\ DeferredRow(A)
            /\ \A j \in (i + 1)..Len(taxon_rows) :
                   ~AcceptingRow(taxon_rows[j], A.acceptedNameUsageID)
            /\ \A k \in (1..Len(taxon_rows)) \ {i} :
                   ResultingName(taxon_rows[k]) # ResultingName(A))
           => \A l \in LinesOf(files, DOMAIN files) : ~HasName(l, ResultingName(A))

\* The run is over; the target of the deferred row came first, with an identifier,
\* and wrote its own line; the deferred row wrote none.
C6_Witness ==
    /\ variant = "CoL"
    /\ pc = "closed"
    /\ Len(taxon_rows) = 2
    /\ Len(vernacular_rows) = 1
    /\ DeferredRow(taxon_rows[2])
    /\ AcceptingRow(taxon_rows[1], taxon_rows[2].acceptedNameUsageID)
    /\ ResultingName(taxon_rows[1]) # ResultingName(taxon_rows[2])
    /\ LinesOf(files, TaxonFiles) # {}
    /\ \A l \in LinesOf(files, DOMAIN files) : ~HasName(l, ResultingName(taxon_rows[2]))

-----------------------------------------------------------------------------
(* C8 *)

\* the number of lines of the files F that carry the name
NameCount(fs, F, name) ==
    Cardinality({p \in UNION {{<<f, i>> : i \in 1..Len(fs[f])} : f \in F} :
                    HasName(fs[p[1]][p[2]], name)})

\* C8 as stated: right after a row with taxonID t, an identifier and a name not
\* skipped has been processed, PendingRedirectMap holds no entry under t; and
\* every deferred (name, taxon id) pair is written to the taxon output at most
\* once over the pass (A's name being the name of no other row).
C8_AsStated ==
    /\ (variant = "CoL" /\ Len(taxon_rows) > 0 /\ pc = "taxon"
          /\ AcceptingRow(Last(taxon_rows), Last(taxon_rows).taxonID))
       => Get(accepted_name_taxon_mapping, Last(taxon_rows).taxonID, <<>>) = <<>>
    /\ \A i \in 1..Len(taxon_rows) :
          (/\ variant = "CoL"
           /\ DeferredRow(taxon_rows[i])
           /\ \A k \in (1..Len(taxon_rows)) \ {i} :
                  ResultingName(taxon_rows[k]) # ResultingName(taxon_rows[i]))
          => NameCount(files, TaxonFiles, ResultingName(taxon_rows[i])) <= 1

-----------------------------------------------------------------------------
(* C2 *)

TaxonIdsUnique ==
    \A i, j \in 1..Len(taxon_rows) :
        taxon_rows[i].taxonID = taxon_rows[j].taxonID => i = j

\* C2: taxon ids being unique in the taxon table, if a deferred row A (no
\* identifier, accepted name usage t) was drained by a later row B (taxonID t,
\* identifier x), every line written for a vernacular row with A's taxonID
\* carries the URI base_uri + x.
C2_VernacularRedirected ==
    [][(VernacularStep /\ variant = "CoL" /\ TaxonIdsUnique) =>
        LET v == Last(vernacular_rows')
        IN \A i \in 1..Len(taxon_rows) : \A j \in (i + 1)..Len(taxon_rows) :
            LET A == taxon_rows[i]
                B == taxon_rows[j]
            IN (/\ DeferredRow(A)
                /\ AcceptingRow(B, A.acceptedNameUsageID)
                /\ v.taxonID = A.taxonID)
               => \A f \in DOMAIN files : \A k \in 1..Len(Appended(f)) :
                      HasUri(Appended(f)[k], B.identifier)
    ]_vars

\* A drained deferred row, and a vernacular line for its taxon id under the
\* identifier of the accepting row.
C2_Witness ==
    /\ variant = "CoL"
    /\ TaxonIdsUnique
    /\ Len(taxon_rows) = 2
    /\ DeferredRow(taxon_rows[1])
    /\ AcceptingRow(taxon_rows[2], taxon_rows[1].acceptedNameUsageID)
    /\ Len(vernacular_rows) = 1
    /\ vernacular_rows[1].taxonID = taxon_rows[1].taxonID
    /\ \E l \in LinesOf(files, VernacularFiles) : HasUri(l, taxon_rows[2].identifier)

-----------------------------------------------------------------------------
(* C3 *)

\* the taxon pass never resolved t to an identifier: no row with taxonID t has
\* one, and no deferred row with taxonID t was drained by a later accepting row
NeverResolved(t) ==
    /\ \A i \in 1..Len(taxon_rows) :
           taxon_rows[i].taxonID = t => Blank(taxon_rows[i].identifier)
    /\ ~\E i \in 1..Len(taxon_rows) : \E j \in (i + 1)..Len(taxon_rows) :
           /\ taxon_rows[i].taxonID = t
           /\ DeferredRow(taxon_rows[i])
           /\ AcceptingRow(taxon_rows[j], taxon_rows[i].acceptedNameUsageID)

\* C3 as stated: every line written for a vernacular row whose taxonID the taxon
\* pass never resolved to an identifier carries the URI base_uri + taxonID.
C3_AsStated ==
    [][(VernacularStep /\ variant = "CoL") =>
        LET v == Last(vernacular_rows')
        IN NeverResolved(v.taxonID)
           => \A f \in DOMAIN files : \A k \in 1..Len(Appended(f)) :
                  HasUri(Appended(f)[k], v.taxonID)
    ]_vars

\* C3, the half that holds: a vernacular row whose taxonID is in no taxon row.
C3_AbsentFallsBack ==
    [][(VernacularStep /\ variant = "CoL") =>
        LET v == Last(vernacular_rows')
        IN (\A i \in 1..Len(taxon_rows) : taxon_rows[i].taxonID # v.taxonID)
           => \A f \in DOMAIN files : \A k \in 1..Len(Appended(f)) :
                  HasUri(Appended(f)[k], v.taxonID)
    ]_vars

-----------------------------------------------------------------------------
(* C4 *)

\* the number of commas of the field: each starts one match of ", ?"
Commas(field) == Cardinality({i \in 1..Len(field) : field[i] = ","})

\* kingdom_class_map[KingdomMap[taxonID]], Taxon when the taxonID or its kingdom is unknown
ClassOfTaxon(taxon_id) ==
    IF taxon_id \in DOMAIN id_kingdom_map
    THEN LET k == id_kingdom_map[taxon_id]
         IN CASE k = "Animalia" -> "Animal_Fauna"
              [] k = "Plantae"  -> "Plant_Flora"
              [] k \in {"Archaea", "Bacteria", "Chromista", "Fungi", "Lichen",
                        "Protozoa", "Taxon", "Viruses"} -> k
              [] OTHER -> "Taxon"
    ELSE "Taxon"

VernacularFileOf(clazz) == CHOOSE f \in VernacularFiles : f[2] = clazz

AcceptedRows == {k \in 1..Len(vernacular_rows) : vernacular_rows[k].language \in filter_languages}

\* C4: a vernacular row whose language is a member of the accepted set writes
\* one line per part of its field (one more than the field has separators), all
\* to the vernacular file of the class of its taxon's kingdom (Taxon when the
\* taxon or the kingdom is unknown), and leaves the filtered count; any other row
\* writes nothing and adds one to the filtered count; and the filtered count
\* plus the number of accepted rows is the number of rows read.
C4_LanguageFilter ==
    [][VernacularStep =>
        LET v == Last(vernacular_rows')
            target == VernacularFileOf(ClassOfTaxon(v.taxonID))
        IN /\ v.language \in filter_languages =>
                /\ Len(Appended(target)) = Commas(v.vernacularName) + 1
                /\ \A k \in 1..Len(Appended(target)) :
                       /\ HasName(Appended(target)[k], names'[k])
                       /\ \A c \in 1..Len(names'[k]) : names'[k][c] # ","
                /\ \A f \in DOMAIN files \ {target} : files'[f] = files[f]
                /\ AppendOnly
                /\ filtered' = filtered
           /\ v.language \notin filter_languages =>
                /\ files' = files
                /\ filtered' = filtered + 1
           /\ filtered' + Cardinality({k \in 1..Len(vernacular_rows') :
                                         vernacular_rows'[k].language \in filter_languages})
                = Len(vernacular_rows')
           /\ all_count' = Len(vernacular_rows')
    ]_vars

\* One accepted row with a three-part field and one filtered row, the run over.
C4_Witness ==
    /\ pc = "closed"
    /\ Len(vernacular_rows) = 2
    /\ Cardinality(AcceptedRows) = 1
    /\ filtered = 1
    /\ \E k \in AcceptedRows : Commas(vernacular_rows[k].vernacularName) = 2
    /\ \E f \in VernacularFiles : f[2] = "Plant_Flora" /\ Len(files[f]) = 3

-----------------------------------------------------------------------------
(* C5 *)

\* C5 as stated: in either processor, a taxon row whose resulting name is empty,
\* whitespace or "incertae sedis" writes no line to any file.
C5_AsStated ==
    [][TaxonStep => (~NotSkipped(Last(taxon_rows')) => files' = files)]_vars

\* C5 amended: a taxon row whose resulting name is empty or whitespace, in either
\* processor, or is "incertae sedis" in the Catalogue-of-Life processor, writes no
\* line to any file.
C5_SkipRule ==
    [][TaxonStep =>
        LET n == ResultingName(Last(taxon_rows'))
        IN (Blank(n) \/ (variant = "CoL" /\ n = incertae_sedis)) => files' = files
    ]_vars

\* A Catalogue-of-Life table: a deferred row, then its target with an identifier
\* and the name "incertae sedis"; nothing is written.
C5_Witness ==
    /\ variant = "CoL"
    /\ Len(taxon_rows) = 2
    /\ DeferredRow(taxon_rows[1])
    /\ taxon_rows[2].taxonID = taxon_rows[1].acceptedNameUsageID
    /\ ~Blank(taxon_rows[2].identifier)
    /\ ResultingName(taxon_rows[2]) = incertae_sedis
    /\ LinesOf(files, DOMAIN files) = {}

-----------------------------------------------------------------------------
(* C9 *)

\* C9: once a vernacular row has been read no taxon row is read, and every step
\* after the taxon pass leaves KingdomMap, IdentifierMap and PendingRedirectMap
\* unchanged and, when the outputs are separated, the taxon files too.
C9_PhaseSeparation ==
    [][/\ (Len(vernacular_rows) > 0 \/ pc # "taxon") => taxon_rows' = taxon_rows
       /\ (VernacularStep \/ pc # "taxon") =>
            /\ id_kingdom_map' = id_kingdom_map
            /\ taxon_id_identifier_mapping' = taxon_id_identifier_mapping
            /\ accepted_name_taxon_mapping' = accepted_name_taxon_mapping
            /\ separate_vernacular_names =>
                   \A f \in DOMAIN files : f[1] = "_tx" => files'[f] = files[f]
    ]_vars

\* Separated outputs, a taxon line written, then vernacular lines written.
C9_Witness ==
    /\ separate_vernacular_names
    /\ pc = "closed"
    /\ LinesOf(files, {f \in DOMAIN files : f[1] = "_tx"}) # {}
    /\ LinesOf(files, {f \in DOMAIN files : f[1] = "_vn"}) # {}
    /\ id_kingdom_map # << >>

-----------------------------------------------------------------------------
(* C10 *)

\* the class of a kingdom, Taxon for an unknown one
ClassOfKingdom(k) ==
    CASE k = "Animalia" -> "Animal_Fauna"
      [] k = "Plantae"  -> "Plant_Flora"
      [] k \in {"Archaea", "Bacteria", "Chromista", "Fungi", "Lichen",
                "Protozoa", "Taxon", "Viruses"} -> k
      [] OTHER -> "Taxon"

TaxonFileOf(clazz) == CHOOSE f \in TaxonFiles : f[2] = clazz

-----------------------------------------------------------------------------
(* C7 *)

\* sep.join(parts)
RECURSIVE Join(_, _)
Join(parts, sep) ==
    IF Len(parts) = 0 THEN <<>>
    ELSE IF Len(parts) = 1 THEN parts[1]
    ELSE parts[1] \o sep \o Join(Tail(parts), sep)

Separators == {<<",">>, <<",", " ">>}

\* every match of the separator pattern in the field is the string sep
AllMatches(field, sep) ==
    \A i \in 1..Len(field) :
        field[i] = "," =>
            ((i < Len(field) /\ field[i + 1] = " ") <=> (sep = <<",", " ">>))

\* C7 as stated: for every field with at least one separator there is one
\* separator string, "," or ", ", such that joining the parts of the split with
\* it gives the field back.
C7_AsStated ==
    (Len(vernacular_rows) > 0 /\ Commas(Last(vernacular_rows).vernacularName) > 0)
    => \E sep \in Separators : Join(names, sep) = Last(vernacular_rows).vernacularName

\* C7 amended: for every field with at least one separator, all of whose
\* separators are the same string ("," or ", "), joining the parts of the split
\* with that string gives the field back.
C7_SplitRoundTrip ==
    (Len(vernacular_rows) > 0 /\ Commas(Last(vernacular_rows).vernacularName) > 0)
    => \A sep \in Separators :
          AllMatches(Last(vernacular_rows).vernacularName, sep)
          => Join(names, sep) = Last(vernacular_rows).vernacularName

\* A field with a leading separator and a comma followed by two spaces, split.
C7_Witness ==
    /\ Len(vernacular_rows) = 1
    /\ vernacular_rows[1].vernacularName = <<",", " ", " ", "a">>
    /\ names = << <<>>, <<" ", "a">> >>

====
